---------------------------- MODULE Spec2Model ----------------------------
(***************************************************************************)
(* MaxDiff simple-count pipeline of 1-max-diff-scaling.py:                 *)
(*   set_seed -> simulate_maxdiff -> simple_count_scores -> round(3)       *)
(*   -> to_csv -> plots -> print.                                          *)
(*                                                                         *)
(* Numbers.  A float is a record [num, den] read as the real num/den       *)
(* (den > 0); NaN is 0/0.  Counts, scores and the 0-100 scale are exact.   *)
(* The square root is taken downwards at a resolution of 10^-4.            *)
(*                                                                         *)
(* Randomness.  stream is the sequence of values the generator seeded by   *)
(* set_seed yields, as far as some run has drawn them; cursor is the       *)
(* position of the running process in it.  A draw past the known prefix    *)
(* takes any value of its range and extends the prefix.                    *)
(*                                                                         *)
(* Sorting.  sort_values is called with the default kind (quicksort),      *)
(* which leaves the order of equal keys to the build.  The order is any    *)
(* admissible one, but the same for the same input (sortMemo).             *)
(***************************************************************************)
EXTENDS Integers, Sequences, FiniteSets, TLC

VARIABLES
    pc,              \* position of main
    n_respondents,   \* --respondents
    sets_per_resp,   \* --sets-per-respondent
    items_per_set,   \* --items-per-set
    resp,            \* outer loop variable of simulate_maxdiff
    setNo,           \* inner loop counter of simulate_maxdiff
    records,         \* records of simulate_maxdiff, then the rows of df
    stream,          \* values of the seeded random stream drawn so far
    cursor,          \* draws the running process has consumed
    ranked,          \* return value of simple_count_scores
    csv,             \* contents of maxdiff_simplecount_results.csv
    plots,           \* the set of chart files written
    error,           \* the uncaught exception, or "none"
    sortMemo,        \* what argsort returned, and for which Score column
    run,             \* 1 for the first run of the program, 2 for the second
    firstRun         \* trials and table of the first run

vars == <<pc, n_respondents, sets_per_resp, items_per_set, resp, setNo,
          records, stream, cursor, ranked, csv, plots, error, sortMemo, run,
          firstRun>>

\* Bound on the number of trials (respondents x sets) of a run.
MaxTrials == 2

\* The catalog of main, cut to its first three labels.
items == <<"Free Shipping", "Same-Day Delivery", "Easy Returns">>

\* len(seq)
len(seq) == Len(seq)

Range(seq) == {seq[i] : i \in 1..Len(seq)}

---------------------------------------------------------------------------
(* Floats *)

NaN == [num |-> 0, den |-> 0]

Rat(n, d) == [num |-> n, den |-> d]

IsNaN(x) == x.den = 0

\* Mutant of DivShown: a zero denominator gives 0 instead of NaN.
DivShown_zero(a, shown) == IF shown = 0 THEN Rat(0, 1) ELSE Rat(a, shown)

\* a / b for an integer a and b = Shown.replace(0, np.nan)
DivShown(a, shown) == IF shown = 0 THEN NaN ELSE Rat(a, shown)

Add(x, y) ==
    IF IsNaN(x) \/ IsNaN(y) THEN NaN
    ELSE Rat(x.num * y.den + y.num * x.den, x.den * y.den)

Sub(x, y) ==
    IF IsNaN(x) \/ IsNaN(y) THEN NaN
    ELSE Rat(x.num * y.den - y.num * x.den, x.den * y.den)

Mul(x, y) ==
    IF IsNaN(x) \/ IsNaN(y) THEN NaN
    ELSE Rat(x.num * y.num, x.den * y.den)

\* x / y; y = 0 never reaches it unguarded (span > 0 is tested first), and
\* IEEE gives NaN or an infinity there, which the model folds into NaN.
Div(x, y) ==
    IF IsNaN(x) \/ IsNaN(y) \/ y.num = 0 THEN NaN
    ELSE IF y.num > 0 THEN Rat(x.num * y.den, x.den * y.num)
    ELSE Rat(-(x.num * y.den), x.den * (-y.num))

\* Comparisons with NaN are false, as in IEEE.
Lt(x, y) == ~IsNaN(x) /\ ~IsNaN(y) /\ x.num * y.den < y.num * x.den
Le(x, y) == ~IsNaN(x) /\ ~IsNaN(y) /\ x.num * y.den <= y.num * x.den
Eq(x, y) == ~IsNaN(x) /\ ~IsNaN(y) /\ x.num * y.den = y.num * x.den

RECURSIVE Gcd(_, _)
Gcd(a, b) == IF b = 0 THEN a ELSE Gcd(b, a % b)

Abs(a) == IF a < 0 THEN -a ELSE a

Reduce(x) ==
    IF IsNaN(x) THEN NaN
    ELSE LET g == Gcd(Abs(x.num), x.den) IN Rat(x.num \div g, x.den \div g)

\* Largest r in lo..hi with r * r <= v (lo * lo <= v).
RECURSIVE ISqrt(_, _, _)
ISqrt(v, lo, hi) ==
    IF lo = hi THEN lo
    ELSE LET mid == (lo + hi + 1) \div 2
         IN  IF mid * mid <= v THEN ISqrt(v, mid, hi) ELSE ISqrt(v, lo, mid - 1)

\* np.sqrt: NaN for NaN and for a negative argument.
Sqrt(x) ==
    IF IsNaN(x) \/ x.num < 0 THEN NaN
    ELSE LET r == Reduce(x)
         IN  Rat(ISqrt((r.num * 100000000) \div r.den, 0, 46340), 10000)

\* n / d rounded to the nearest integer, halves to the even one (d > 0).
RoundDiv(n, d) ==
    LET q == n \div d
        r == n % d
    IN  IF 2 * r < d THEN q
        ELSE IF 2 * r > d THEN q + 1
        ELSE IF q % 2 = 0 THEN q ELSE q + 1

\* round(3) of one float: thousandths.
Round3(x) ==
    IF IsNaN(x) THEN NaN
    ELSE IF x.den % 1000 = 0
         THEN Rat(RoundDiv(x.num, x.den \div 1000), 1000)
         ELSE Rat(RoundDiv(x.num * 1000, x.den), 1000)

---------------------------------------------------------------------------
(* The random module *)

\* The ranges of the k draws of random.sample(population, k): the i-th is
\* _randbelow(n - i + 1).
SampleBound(n, i) == n - i + 1

\* pool after pool[j] = pool[n - i - 1] (j counted from 0, last = n - i).
PoolAfter(pool, j, last) == [pool EXCEPT ![j + 1] = pool[last]]

\* Mutant of sample: the pool is not updated, so an item can be drawn twice.
sample_with_replacement(population, k, d) == [i \in 1..k |-> population[d[i] + 1]]

\* random.sample(population, k) with the draws d[1..k]: selection from a pool,
\* the path CPython takes for a population of at most 21.
RECURSIVE SampleFrom(_, _, _, _)
SampleFrom(pool, k, d, i) ==
    IF i > k THEN <<>>
    ELSE <<pool[d[i] + 1]>>
         \o SampleFrom(PoolAfter(pool, d[i], len(pool) - i + 1), k, d, i + 1)

sample(population, k, d) == SampleFrom(population, k, d, 1)

\* random.choice(seq) with the draw j = _randbelow(len(seq)).
choice(seq, j) == seq[j + 1]

\* Mutant of least_pool: the most item is not taken out of the pool.
least_pool_keeps_most(choice_set, most) == choice_set

\* [i for i in choice_set if i != most]
least_pool(choice_set, most) == SelectSeq(choice_set, LAMBDA i : i # most)

\* The value the generator yields i draws after cursor, reduced to 0..n-1:
\* the recorded one when the seeded stream is known that far, else any.
Yields(i, n) ==
    IF cursor + i <= Len(stream)
    THEN {stream[cursor + i] % n}
    ELSE 0..(n - 1)

\* The draws random.sample(items, k) can make, one after the other.
SampleDraws(k) ==
    {d \in [1..k -> 0..(len(items) - 1)] :
        \A i \in 1..k : d[i] \in Yields(i, SampleBound(len(items), i))}

\* The stream after the running process has consumed the draws d.
Consumed(d) ==
    LET known == Len(stream)
        upto  == IF cursor + Len(d) > known THEN cursor + Len(d) ELSE known
    IN  [i \in 1..upto |-> IF i <= known THEN stream[i] ELSE d[i - cursor]]

---------------------------------------------------------------------------
(* main and simulate_maxdiff *)

NoRun == [records |-> <<>>, csv |-> <<>>]
NoMemo == [scores |-> <<>>, order |-> <<>>]

Init ==
    /\ pc = "start"
    /\ n_respondents \in 0..MaxTrials
    /\ sets_per_resp \in 0..MaxTrials
    /\ n_respondents * sets_per_resp <= MaxTrials
    /\ items_per_set \in (-1)..(len(items) + 1)
    /\ resp = 0
    /\ setNo = 0
    /\ records = <<>>
    /\ stream = <<>>
    /\ cursor = 0
    /\ ranked = <<>>
    /\ csv = <<>>
    /\ plots = {}
    /\ error = "none"
    /\ sortMemo = NoMemo
    /\ run = 1
    /\ firstRun = NoRun

\* Mutant of set_seed: the generator is left where it is.
set_seed_skipped == cursor

\* random.seed(seed): the generator restarts at the head of the seed's stream.
set_seed == 0

\* main, lines 185-186: seed the generators, create the output directory.
Start ==
    /\ pc = "start"
    /\ cursor' = set_seed
    /\ pc' = "simulate"
    /\ UNCHANGED <<n_respondents, sets_per_resp, items_per_set, resp, setNo,
                   records, stream, ranked, csv, plots, error,
                   sortMemo, run, firstRun>>

\* The loops of simulate_maxdiff have a body left to run.
InLoop == resp < n_respondents /\ sets_per_resp > 0

\* random.sample raises ValueError for a sample larger than the population
\* or negative.
SampleRaises(k) == k < 0 \/ k > len(items)

\* The loop counters after one more body.
NextSet == IF setNo + 1 < sets_per_resp THEN setNo + 1 ELSE 0
NextResp == IF setNo + 1 < sets_per_resp THEN resp ELSE resp + 1

\* The record appended at line 58.
Trial(choice_set, most, least) ==
    [Respondent |-> resp, Set |-> choice_set, Most |-> most, Least |-> least]

\* One body of the loops, lines 53-58, run to the append.
GenerateTrial ==
    /\ pc = "simulate"
    /\ InLoop
    /\ ~SampleRaises(items_per_set)
    /\ \E d \in SampleDraws(items_per_set) :
       \E choice_set \in {sample(items, items_per_set, d)} :
         /\ len(choice_set) > 0
         /\ \E jm \in Yields(items_per_set + 1, len(choice_set)) :
            \E most \in {choice(choice_set, jm)} :
            \E pool \in {least_pool(choice_set, most)} :
              /\ len(pool) > 0
              /\ \E jl \in Yields(items_per_set + 2, len(pool)) :
                   /\ records' = Append(records,
                          Trial(choice_set, most, choice(pool, jl)))
                   /\ stream' = Consumed(d \o <<jm, jl>>)
                   /\ cursor' = cursor + items_per_set + 2
    /\ resp' = NextResp
    /\ setNo' = NextSet
    /\ UNCHANGED <<pc, n_respondents, sets_per_resp, items_per_set, ranked,
                   csv, plots, error, sortMemo, run, firstRun>>

\* One body of the loops that ends in an exception: ValueError from
\* random.sample, or IndexError from random.choice of an empty sequence.
\* Nothing catches it: the run ends there.
TrialRaises ==
    /\ pc = "simulate"
    /\ InLoop
    /\ \/ /\ SampleRaises(items_per_set)
          /\ error' = "ValueError"
          /\ UNCHANGED <<stream, cursor>>
       \/ /\ ~SampleRaises(items_per_set)
          /\ \E d \in SampleDraws(items_per_set) :
             \E choice_set \in {sample(items, items_per_set, d)} :
               \/ /\ len(choice_set) = 0
                  /\ stream' = Consumed(d)
                  /\ cursor' = cursor + items_per_set
               \/ /\ len(choice_set) > 0
                  /\ \E jm \in Yields(items_per_set + 1, len(choice_set)) :
                       /\ len(least_pool(choice_set, choice(choice_set, jm))) = 0
                       /\ stream' = Consumed(d \o <<jm>>)
                       /\ cursor' = cursor + items_per_set + 1
          /\ error' = "IndexError"
    /\ pc' = "failed"
    /\ UNCHANGED <<n_respondents, sets_per_resp, items_per_set, resp, setNo,
                   records, ranked, csv, plots, sortMemo, run,
                   firstRun>>

\* Lines 60-61: the loops are over, df is built from records and returned.
ReturnFrame ==
    /\ pc = "simulate"
    /\ ~InLoop
    /\ pc' = "score"
    /\ UNCHANGED <<n_respondents, sets_per_resp, items_per_set, resp, setNo,
                   records, stream, cursor, ranked, csv, plots,
                   error, sortMemo, run, firstRun>>

---------------------------------------------------------------------------
(* simple_count_scores *)

\* Mutant of Shown: the respondents who saw the item instead of the sets.
Shown_by_respondent(df, item) ==
    Cardinality({df[t].Respondent :
                 t \in {t \in 1..Len(df) : item \in Range(df[t].Set)}})

\* df["Set"].explode().value_counts().reindex(items, fill_value=0): the
\* entries of the Set lists that are the item.
Shown(df, item) ==
    Cardinality(UNION {{<<t, j>> : j \in {j \in 1..Len(df[t].Set) : df[t].Set[j] = item}} :
                       t \in 1..Len(df)})

\* df["Most"].value_counts().reindex(items, fill_value=0)
Most(df, item) == Cardinality({t \in 1..Len(df) : df[t].Most = item})

\* df["Least"].value_counts().reindex(items, fill_value=0)
Least(df, item) == Cardinality({t \in 1..Len(df) : df[t].Least = item})

\* Mutant of Score: out["Most"] - out["Least"] / out["Shown"]
Score_unparenthesised(most, least, shown) ==
    Sub(Rat(most, 1), DivShown(least, shown))

\* (out["Most"] - out["Least"]) / out["Shown"].replace(0, np.nan)
Score(most, least, shown) == DivShown(most - least, shown)

\* np.sqrt((pM * (1 - pM) + pL * (1 - pL)) / out["Shown"].replace(0, np.nan))
SE(most, least, shown) ==
    LET pM  == DivShown(most, shown)
        pL  == DivShown(least, shown)
        one == Rat(1, 1)
    IN  Sqrt(Div(Add(Mul(pM, Sub(one, pM)), Mul(pL, Sub(one, pL))),
                 DivShown(shown * shown, shown)))

\* ~95% normal quantile
z == Rat(196, 100)

\* Mutant of CI_L: the margin is added.
CI_L_plus(score, se) == Add(score, Mul(z, se))

CI_L(score, se) == Sub(score, Mul(z, se))
CI_U(score, se) == Add(score, Mul(z, se))

\* The frame before sorting: one row per catalog item, in catalog order.
Counted(df, its) ==
    [c \in 1..len(its) |->
        LET m  == Most(df, its[c])
            l  == Least(df, its[c])
            sh == Shown(df, its[c])
            sc == Score(m, l, sh)
            se == SE(m, l, sh)
        IN  [Item |-> its[c], Most |-> m, Least |-> l, Shown |-> sh,
             Score |-> sc, SE |-> se,
             CI_L |-> CI_L(sc, se), CI_U |-> CI_U(sc, se)]]

\* The Score column of the frame before sorting.
ScoreColumn(out) == [c \in 1..Len(out) |-> out[c].Score]

\* What sort_values("Score", ascending=False) guarantees of the row order it
\* returns (order[r] is the catalog position of the row at rank r): the rows
\* with a Score come first, no row before one with a greater Score; the NaN
\* rows come last, in their original order.  With the default kind the order
\* of rows with equal Score is not fixed.
SortOrders(scores) ==
    LET n == Len(scores)
    IN  {order \in [1..n -> 1..n] :
            /\ \A a, b \in 1..n : a # b => order[a] # order[b]
            /\ \A a, b \in 1..n : a < b =>
                 /\ ~Lt(scores[order[a]], scores[order[b]])
                 /\ IsNaN(scores[order[a]]) =>
                      IsNaN(scores[order[b]]) /\ order[a] < order[b]}

\* The sort is a function of its input: the same column gets the same order.
argsort(scores) ==
    IF sortMemo.scores = scores THEN {sortMemo.order} ELSE SortOrders(scores)

\* out["Score"].min(): NaN is skipped; NaN when no Score is defined.
MinScore(scores) ==
    LET defined == {c \in 1..Len(scores) : ~IsNaN(scores[c])}
    IN  IF defined = {} THEN NaN
        ELSE scores[CHOOSE c \in defined : \A e \in defined : Le(scores[c], scores[e])]

\* out["Score"].max()
MaxScore(scores) ==
    LET defined == {c \in 1..Len(scores) : ~IsNaN(scores[c])}
    IN  IF defined = {} THEN NaN
        ELSE scores[CHOOSE c \in defined : \A e \in defined : Le(scores[e], scores[c])]

\* Mutant of Scaled_0_100: the scaling without the test of the span.
Scaled_unguarded(score, min_s, span) ==
    Mul(Div(Sub(score, min_s), span), Rat(100, 1))

\* np.where(span > 0, (out["Score"] - min_s) / span * 100, 50.0)
Scaled_0_100(score, min_s, span) ==
    IF Lt(Rat(0, 1), span)
    THEN Mul(Div(Sub(score, min_s), span), Rat(100, 1))
    ELSE Rat(50, 1)

\* Lines 104-116: the frame sorted into the row order the sort returned,
\* with the 0-100 scaling and the ranks.
Ranked(out, order) ==
    LET col   == ScoreColumn(out)
        min_s == MinScore(col)
        max_s == MaxScore(col)
        span  == Sub(max_s, min_s)
    IN  [r \in 1..Len(out) |->
            LET row == out[order[r]]
            IN  [Rank |-> r, Item |-> row.Item, Most |-> row.Most,
                 Least |-> row.Least, Shown |-> row.Shown, Score |-> row.Score,
                 CI_L |-> row.CI_L, CI_U |-> row.CI_U, SE |-> row.SE,
                 Scaled_0_100 |-> Scaled_0_100(row.Score, min_s, span)]]

\* DataFrame.round(3): the float columns to 3 decimals, the rest unchanged.
round3(table) ==
    [r \in 1..Len(table) |->
        [table[r] EXCEPT !.Score = Round3(@), !.CI_L = Round3(@),
                         !.CI_U = Round3(@), !.SE = Round3(@),
                         !.Scaled_0_100 = Round3(@)]]

\* main, line 207, the call simple_count_scores(df, items): the frame is
\* counted, sorted, scaled and ranked.
simple_count_scores ==
    /\ pc = "score"
    /\ \E out \in {Counted(records, items)} :
         \E order \in argsort(ScoreColumn(out)) :
            /\ ranked' = Ranked(out, order)
            /\ sortMemo' = [scores |-> ScoreColumn(out), order |-> order]
    /\ pc' = "save"
    /\ UNCHANGED <<n_respondents, sets_per_resp, items_per_set, resp, setNo,
                   records, stream, cursor, csv, plots, error, run, firstRun>>

\* main, line 207, the rounding: result_table = (...).round(3)
result_table == round3(ranked)

\* main, lines 210-224: result_table.to_csv(csv_path, index=False), the two
\* charts, the console summary.
SaveAndPlot ==
    /\ pc = "save"
    /\ csv' = result_table
    /\ plots' = {"maxdiff_simplecount_ci.png", "maxdiff_scaled_bar.png"}
    /\ pc' = "done"
    /\ UNCHANGED <<n_respondents, sets_per_resp, items_per_set, resp, setNo,
                   records, stream, cursor, ranked, error, sortMemo, run,
                   firstRun>>

\* The program is run a second time with the same arguments: a new process,
\* whose generator is not seeded yet and would yield values of its own; the
\* output files of the first run are still there.
Rerun ==
    /\ pc = "done"
    /\ run = 1
    /\ run' = 2
    /\ firstRun' = [records |-> records, csv |-> csv]
    /\ pc' = "start"
    /\ resp' = 0
    /\ setNo' = 0
    /\ records' = <<>>
    /\ ranked' = <<>>
    /\ cursor' = Len(stream)
    /\ UNCHANGED <<n_respondents, sets_per_resp, items_per_set, stream, csv,
                   plots, error, sortMemo>>

Next ==
    \/ Start
    \/ GenerateTrial
    \/ TrialRaises
    \/ ReturnFrame
    \/ simple_count_scores
    \/ SaveAndPlot

Spec == Init /\ [][Next]_vars

NextTwice == Next \/ Rerun

SpecTwice == Init /\ [][NextTwice]_vars

---------------------------------------------------------------------------
(* Properties *)

\* 2 <= K <= N: the arguments simulate_maxdiff is specified for.
ValidK == 2 <= items_per_set /\ items_per_set <= len(items)

HasTable == ranked # <<>>

Rows == 1..Len(ranked)

RECURSIVE SumShown(_, _)
SumShown(df, its) ==
    IF its = <<>> THEN 0 ELSE Shown(df, Head(its)) + SumShown(df, Tail(its))

RECURSIVE SumColumnShown(_)
SumColumnShown(table) ==
    IF table = <<>> THEN 0 ELSE Head(table).Shown + SumColumnShown(Tail(table))

\* The catalog position of an item.
CatalogPos(item) == CHOOSE c \in 1..len(items) : items[c] = item

Zero == Rat(0, 1)
Hundred == Rat(100, 1)

\* C1: the Shown counts sum to K times the number of trials: after every
\* generated trial over the trials so far, and to R * S * K in the table
\* simple_count_scores returns.
C1_ShownSum ==
    ValidK =>
        /\ SumShown(records, items) = items_per_set * Len(records)
        /\ HasTable =>
             SumColumnShown(ranked) = n_respondents * sets_per_resp * items_per_set

C1_Witness ==
    /\ pc = "done"
    /\ ValidK
    /\ Len(records) = 2
    /\ SumColumnShown(ranked) = 2 * items_per_set

\* C2: an item that was shown was picked as most or least at most as often
\* as it was shown, in the trials so far and in the returned table.
C2_PicksWithinShown ==
    /\ \A c \in 1..len(items) :
         \A shown \in {Shown(records, items[c])} :
            shown > 0 =>
                Most(records, items[c]) + Least(records, items[c]) <= shown
    /\ \A r \in Rows :
         ranked[r].Shown > 0 => ranked[r].Most + ranked[r].Least <= ranked[r].Shown

C2_Witness ==
    /\ HasTable
    /\ \E r \in Rows :
         /\ ranked[r].Most = 1
         /\ ranked[r].Least = 1
         /\ ranked[r].Shown = 2

\* C3: Rank is a permutation of 1..N, the rows are in descending Score order
\* with the maximum Score at Rank 1, and rows of equal Score keep their
\* catalog order.
C3_StableRanking ==
    HasTable =>
        /\ Len(ranked) = len(items)
        /\ \A r \in Rows : ranked[r].Rank = r
        /\ \A a, b \in Rows : a < b => ~Lt(ranked[a].Score, ranked[b].Score)
        /\ \A r \in Rows : ~Lt(ranked[1].Score, ranked[r].Score)
        /\ \A a, b \in Rows :
             a < b /\ Eq(ranked[a].Score, ranked[b].Score) =>
                CatalogPos(ranked[a].Item) < CatalogPos(ranked[b].Item)

InZeroHundred(x) == Le(Zero, x) /\ Le(x, Hundred)

\* x = (score - min) / span * 100, multiplied out.
IsScaling(x, score, min_s, span) ==
    Eq(Mul(x, span), Mul(Sub(score, min_s), Hundred))

\* C4 as claimed: every row, a never shown item's included, has a Scaled_0_100
\* in [0, 100]: the min-max scaling when the Score range is positive, else 50.
C4_ScaledEveryRow ==
    HasTable =>
        \A min_s \in {MinScore(ScoreColumn(ranked))} :
        \A span \in {Sub(MaxScore(ScoreColumn(ranked)), min_s)} :
            \A r \in Rows :
                /\ InZeroHundred(ranked[r].Scaled_0_100)
                /\ IF Lt(Zero, span)
                   THEN IsScaling(ranked[r].Scaled_0_100, ranked[r].Score, min_s, span)
                   ELSE ranked[r].Scaled_0_100 = Rat(50, 1)

\* C4 amended: when the Score range is positive, a row of a shown item has the
\* min-max scaling, which lies in [0, 100], and a row of a never shown item
\* has NaN; when it is not positive, every row has 50.
C4_ScaledShownRows ==
    HasTable =>
        \A min_s \in {MinScore(ScoreColumn(ranked))} :
        \A span \in {Sub(MaxScore(ScoreColumn(ranked)), min_s)} :
            \A r \in Rows :
                IF Lt(Zero, span)
                THEN IF ranked[r].Shown > 0
                     THEN /\ InZeroHundred(ranked[r].Scaled_0_100)
                          /\ IsScaling(ranked[r].Scaled_0_100, ranked[r].Score,
                                       min_s, span)
                     ELSE IsNaN(ranked[r].Scaled_0_100)
                ELSE ranked[r].Scaled_0_100 = Rat(50, 1)

C4_Witness ==
    /\ HasTable
    /\ \E r \in Rows : ranked[r].Shown = 0 /\ IsNaN(ranked[r].Scaled_0_100)
    /\ \E r \in Rows : Eq(ranked[r].Scaled_0_100, Hundred)
    /\ \E r \in Rows : Eq(ranked[r].Scaled_0_100, Zero)

\* C5: the returned table has one row per catalog item; a never shown item
\* has Shown = Most = Least = 0 and NaN for Score, SE, CI_L and CI_U, and the
\* run does not end in an error; a shown item has Score = (Most - Least) / Shown.
C5_OneRowPerItem ==
    /\ pc \in {"save", "done"} => HasTable /\ error = "none"
    /\ HasTable =>
         /\ Len(ranked) = len(items)
         /\ \A c \in 1..len(items) :
              Cardinality({r \in Rows : ranked[r].Item = items[c]}) = 1
         /\ \A r \in Rows :
              /\ ranked[r].Shown = Shown(records, ranked[r].Item)
              /\ IF ranked[r].Shown = 0
                 THEN /\ ranked[r].Most = 0
                      /\ ranked[r].Least = 0
                      /\ IsNaN(ranked[r].Score)
                      /\ IsNaN(ranked[r].SE)
                      /\ IsNaN(ranked[r].CI_L)
                      /\ IsNaN(ranked[r].CI_U)
                 ELSE /\ ~IsNaN(ranked[r].Score)
                      /\ ranked[r].Score.num * ranked[r].Shown
                           = (ranked[r].Most - ranked[r].Least) * ranked[r].Score.den

C5_Witness ==
    /\ pc = "done"
    /\ records # <<>>
    /\ \E r \in Rows : ranked[r].Shown = 0 /\ IsNaN(ranked[r].Score)
    /\ \E r \in Rows : ranked[r].Shown > 0 /\ ranked[r].Score.num # 0

\* C6: a run whose items-per-set is above the catalog size or below 2 fails
\* before it generates a trial, and so writes no table and no chart.
C6_FailsFast ==
    ~ValidK =>
        /\ records = <<>>
        /\ ranked = <<>>
        /\ csv = <<>>
        /\ plots = {}
        /\ pc # "done"

\* The draws that produced trial t lie in the stream in the order choice
\* set, most, least.
DrawnInOrder(t) ==
    LET base == (t - 1) * (items_per_set + 2)
        d    == [i \in 1..items_per_set |-> stream[base + i]]
        set  == sample(items, items_per_set, d)
    IN  /\ records[t].Set = set
        /\ records[t].Most = choice(set, stream[base + items_per_set + 1])
        /\ records[t].Least =
             choice(least_pool(set, records[t].Most), stream[base + items_per_set + 2])

\* C7: a second run with the same seed and arguments draws from the stream
\* in the same order, generates the same trials and writes the same table.
C7_Deterministic ==
    /\ \A t \in 1..Len(records) : DrawnInOrder(t)
    /\ run = 2 =>
         /\ \A t \in 1..Len(records) :
              t <= Len(firstRun.records) /\ records[t] = firstRun.records[t]
         /\ pc \in {"save", "done"} =>
              records = firstRun.records /\ result_table = firstRun.csv
         /\ csv = firstRun.csv

C7_Witness ==
    /\ run = 2
    /\ pc = "done"
    /\ Len(records) = 2
    /\ records[1] # records[2]
    /\ csv = firstRun.csv

\* C8: the Score of a shown item lies in [-1, 1].
C8_ScoreInUnitRange ==
    \A r \in Rows :
        ranked[r].Shown > 0 =>
            /\ Le(Rat(-1, 1), ranked[r].Score)
            /\ Le(ranked[r].Score, Rat(1, 1))
            /\ -ranked[r].Shown <= ranked[r].Most - ranked[r].Least
            /\ ranked[r].Most - ranked[r].Least <= ranked[r].Shown

C8_Witness ==
    /\ HasTable
    /\ \E r \in Rows : ranked[r].Shown = 2 /\ Eq(ranked[r].Score, Rat(1, 1))
    /\ \E r \in Rows : ranked[r].Shown = 2 /\ Eq(ranked[r].Score, Rat(-1, 1))

\* C9: a shown item has a defined SE and CI_L <= Score <= CI_U, in the
\* returned table and in the table rounded to 3 decimals.
C9_IntervalAroundScore ==
    \A rounded \in {result_table} :
        \A r \in Rows :
            ranked[r].Shown > 0 =>
                /\ ~IsNaN(ranked[r].SE)
                /\ Le(Zero, ranked[r].SE)
                /\ Le(ranked[r].CI_L, ranked[r].Score)
                /\ Le(ranked[r].Score, ranked[r].CI_U)
                /\ Le(rounded[r].CI_L, rounded[r].Score)
                /\ Le(rounded[r].Score, rounded[r].CI_U)

C9_Witness ==
    /\ HasTable
    /\ \E rounded \in {result_table} :
           \E r \in Rows :
             /\ ranked[r].Shown > 0
             /\ Lt(Zero, ranked[r].SE)
             /\ ~Eq(ranked[r].SE, rounded[r].SE)
             /\ Lt(rounded[r].CI_L, rounded[r].Score)
             /\ Lt(rounded[r].Score, rounded[r].CI_U)

\* Trial t is well formed.
WellFormed(t) ==
    LET set == records[t].Set
    IN  /\ Len(set) = items_per_set
        /\ \A a, b \in 1..Len(set) : a # b => set[a] # set[b]
        /\ Range(set) \subseteq Range(items)
        /\ records[t].Most \in Range(set)
        /\ records[t].Least \in Range(set)
        /\ records[t].Most # records[t].Least

\* C10: for 2 <= K <= N simulate_maxdiff returns R * S trials, S for each
\* respondent 0..R-1 in turn, every one of them well formed.
C10_TrialsWellFormed ==
    ValidK =>
        /\ error = "none"
        /\ \A t \in 1..Len(records) :
             /\ WellFormed(t)
             /\ records[t].Respondent = (t - 1) \div sets_per_resp
        /\ pc \in {"score", "save", "done"} =>
             Len(records) = n_respondents * sets_per_resp

C10_Witness ==
    /\ pc = "score"
    /\ ValidK
    /\ n_respondents = 2
    /\ Len(records) = 2
    /\ records[1].Respondent = 0
    /\ records[2].Respondent = 1

============================================================================
